---- MODULE Spec2Model ----
(***************************************************************************)
(* A model of the db-stress-test load engine.                              *)
(*                                                                         *)
(*   src/index.js        progressive ramp-up: runProgressiveTest drives    *)
(*                       runStage at growing concurrency; every stage      *)
(*                       spawns `concurrency` async workers that share the *)
(*                       counter tasksStarted and the accumulator stats    *)
(*   src/stress_test.js  single fixed-concurrency run; its percentile      *)
(*                       report (getPercentile) is modelled here           *)
(*                                                                         *)
(* JavaScript runs one job at a time: code between two awaits is atomic.   *)
(* Every action below is one such run-to-the-next-await segment.           *)
(***************************************************************************)
EXTENDS Integers, Sequences, FiniteSets, TLC

\* ------------------------------------------------------------- bounds
\* index.js hard-codes STAGE_REQUESTS = 2000, INITIAL_CONCURRENCY = 10,
\* CONCURRENCY_STEP = 10, MAX_CONCURRENCY = 500 and MAX_ERROR_RATE = 0.05.
\* The model draws each configuration value from a small range instead.
MaxCeiling == 3
MaxInitial == 2
MaxStep == 2
MaxRequests == 2
MaxSamples == 4
MaxLatency == 2

\* Clock readings. A duration (Date.now() - start of one action) plays no
\* part in the control flow or in the verdict of a stage; the elapsed time
\* of a stage is 0 when the stage ends within the millisecond it began in.
Durations == {1}

ElapsedTimes == {0, 1}

WorkerIds == 0..(MaxCeiling - 1)
TaskIds == 0..(MaxRequests - 1)

\* ------------------------------------------------------- JS numbers
\* A JavaScript number that results from dividing two non-negative integers:
\* a reduced fraction, or NaN (0/0), or Infinity (n/0 with n > 0).
RECURSIVE Gcd(_, _)
Gcd(a, b) == IF b = 0 THEN a ELSE Gcd(b, a % b)

Num(n, d) == [kind |-> "num", num |-> n \div Gcd(n, d), den |-> d \div Gcd(n, d)]

NaN == [kind |-> "NaN", num |-> 0, den |-> 0]

Infinity == [kind |-> "Infinity", num |-> 1, den |-> 0]

Div(a, b) ==
    IF b = 0
    THEN (IF a = 0 THEN NaN ELSE Infinity)
    ELSE Num(a, b)

\* x > y in JavaScript: false as soon as one side is NaN.
Gt(x, y) ==
    CASE x.kind = "NaN" \/ y.kind = "NaN" -> FALSE
      [] x.kind = "Infinity" -> y.kind # "Infinity"
      [] y.kind = "Infinity" -> FALSE
      [] OTHER -> x.num * y.den > y.num * x.den

\* --------------------------------------------------- store errors
\* Text is a tuple of characters, so that String.prototype.includes is a
\* real (case-sensitive) substring search.
Includes(s, sub) ==
    \E k \in 0..(Len(s) - Len(sub)) : SubSeq(s, k + 1, k + Len(sub)) = sub

TimeoutWord == <<"t", "i", "m", "e", "o", "u", "t">>

\* Representative errors of the store client (pg). Each is an Error object,
\* so its message is a string (hasMessage); code is "undefined" when the
\* error carries none.
ErrTooManyClients ==
    [code |-> "53300", hasMessage |-> TRUE,
     message |-> <<"t", "o", "o", " ", "m", "a", "n", "y">>]

ErrPoolTimeout ==
    [code |-> "undefined", hasMessage |-> TRUE,
     message |-> TimeoutWord \o <<" ", "e", "x", "c", "e", "e", "d", "e", "d">>]

ErrSocket ==
    [code |-> "ETIMEDOUT", hasMessage |-> TRUE,
     message |-> <<"c", "o", "n", "n", "e", "c", "t", " ", "E", "T", "I", "M", "E", "D", "O", "U", "T">>]

NoError == [code |-> "undefined", hasMessage |-> FALSE, message |-> <<>>]

StoreErrors == {ErrTooManyClients, ErrPoolTimeout, ErrSocket}

\* index.js:161-164, the test that makes a failure a connection error.
IsConnError(error) ==
    error.code = "53300" \/ Includes(error.message, TimeoutWord)

\* index.js:163: reading .includes of a message that is undefined throws a
\* TypeError, unless the test of the code has already decided.
ClassifyThrows(error) ==
    error.code # "53300" /\ ~error.hasMessage

\* ---------------------------------------------------------- state
VARIABLES
    INITIAL_CONCURRENCY, CONCURRENCY_STEP, MAX_CONCURRENCY, STAGE_REQUESTS,
    MAX_ERROR_RATE,
    pc, currentConcurrency, report, stageResult, stableLimit, terminal,
    setupCalls, poolsCreated, openPools,
    concurrency, requestCount, stats, tasksStarted, i,
    wpc, taskIndex, client, result,
    issued, counted, held, badRelease, failures, connFailures,
    latencies, samples, spc, percentiles

config == <<INITIAL_CONCURRENCY, CONCURRENCY_STEP, MAX_CONCURRENCY,
            STAGE_REQUESTS, MAX_ERROR_RATE>>

controller == <<pc, currentConcurrency, report, stageResult, stableLimit,
                terminal, setupCalls>>

pools == <<poolsCreated, openPools>>

stage == <<concurrency, requestCount, stats, tasksStarted, i>>

workers == <<wpc, taskIndex, client, result>>

history == <<issued, counted, held, badRelease, failures, connFailures>>

\* stress_test.js: stats.latencies, the same samples in arrival order, the
\* position of runStressTest and the three percentiles it prints.
stress == <<latencies, samples, spc, percentiles>>

vars == <<config, controller, pools, stage, workers, history, stress>>

ErrorRates == {Num(5, 100), Num(1, 2)}

\* index.js:233: no runStage call has returned a result yet.
NoStageResult ==
    [concurrency |-> 0, throughput |-> Num(0, 1), avgLatency |-> Num(0, 1),
     errorRate |-> Num(0, 1), hasCriticalFailure |-> FALSE]

\* index.js:240: no stable limit has been logged; every logged value is at
\* least 1 - MaxStep.
NoStableLimit == 0 - (MaxStep + 1)

NoResult == [success |-> FALSE, duration |-> 0, error |-> NoError]

EmptyStats ==
    [completed |-> 0, errors |-> 0, totalDuration |-> 0, latencies |-> <<>>,
     connErrors |-> 0]

Percentiles == {50, 95, 99}

\* A value read from the latencies array: a number, or undefined.
Number(v) == [defined |-> TRUE, value |-> v]

Undefined == [defined |-> FALSE, value |-> 0]

NoPercentiles == [p \in Percentiles |-> Undefined]

StressOff ==
    /\ latencies = <<>>
    /\ samples = <<>>
    /\ spc = "off"
    /\ percentiles = NoPercentiles

Init ==
    /\ StressOff
    /\ INITIAL_CONCURRENCY \in 1..MaxInitial
    /\ CONCURRENCY_STEP \in 1..MaxStep
    /\ MAX_CONCURRENCY \in 1..MaxCeiling
    /\ STAGE_REQUESTS \in 0..MaxRequests
    /\ MAX_ERROR_RATE \in ErrorRates
    /\ pc = "setup"
    /\ currentConcurrency = 0
    /\ report = <<>>
    /\ stageResult = NoStageResult
    /\ stableLimit = NoStableLimit
    /\ terminal = "running"
    /\ setupCalls = 0
    /\ poolsCreated = 0
    /\ openPools = 0
    /\ concurrency = 0
    /\ requestCount = 0
    /\ stats = EmptyStats
    /\ tasksStarted = 0
    /\ i = 0
    /\ wpc = [w \in WorkerIds |-> "idle"]
    /\ taskIndex = [w \in WorkerIds |-> 0]
    /\ client = [w \in WorkerIds |-> FALSE]
    /\ result = [w \in WorkerIds |-> NoResult]
    /\ issued = <<>>
    /\ counted = [t \in TaskIds |-> 0]
    /\ held = {}
    /\ badRelease = FALSE
    /\ failures = 0
    /\ connFailures = 0


\* The workers run from the end of the spawning loop on. A worker whose
\* promise rejects makes Promise.all reject, but the others are not cancelled.
WorkersRunning == pc \in {"await_workers", "rejected"}

\* ----------------------------------------------- performUserAction
\* Variant: the catch block returns { success: false } without the error.
CatchDropsError(w, err) ==
    /\ result' = [result EXCEPT ![w] = [success |-> FALSE, duration |-> 0, error |-> NoError]]
    /\ failures' = failures + 1
    /\ connFailures' = connFailures + (IF IsConnError(err) THEN 1 ELSE 0)

\* index.js:108-109, the catch block: the error becomes a failure result.
Catch(w, err) ==
    /\ result' = [result EXCEPT ![w] = [success |-> FALSE, duration |-> 0, error |-> err]]
    /\ failures' = failures + 1
    /\ connFailures' = connFailures + (IF IsConnError(err) THEN 1 ELSE 0)

\* index.js:110-112, the finally block: release the client if one was obtained.
Release(w) ==
    /\ held' = held \ {taskIndex[w]}
    /\ badRelease' = (badRelease \/ taskIndex[w] \notin held)

\* Variant: the release sits at the end of the try block, not in finally.
FinallyOnSuccessOnly(w) ==
    IF client[w] /\ result'[w].success
    THEN Release(w)
    ELSE UNCHANGED <<held, badRelease>>

Finally(w) ==
    IF client[w] THEN Release(w) ELSE UNCHANGED <<held, badRelease>>

\* index.js:86, pool.connect() resolves, and line 90 sends the INSERT.
ConnectOk(w) ==
    /\ WorkersRunning
    /\ wpc[w] = "connect"
    /\ client' = [client EXCEPT ![w] = TRUE]
    /\ held' = held \cup {taskIndex[w]}
    /\ wpc' = [wpc EXCEPT ![w] = "write"]
    /\ UNCHANGED <<stress, config, controller, pools, stage, taskIndex, result,
                   issued, counted, badRelease, failures, connFailures>>

\* index.js:86, pool.connect() rejects: catch, finally (no client), return.
ConnectFail(w, err) ==
    /\ WorkersRunning
    /\ wpc[w] = "connect"
    /\ Catch(w, err)
    /\ Finally(w)
    /\ wpc' = [wpc EXCEPT ![w] = "resume"]
    /\ UNCHANGED <<stress, config, controller, pools, stage, taskIndex, client,
                   issued, counted>>

\* index.js:90-102, the INSERT resolves and the SELECT is sent.
WriteOk(w) ==
    /\ WorkersRunning
    /\ wpc[w] = "write"
    /\ wpc' = [wpc EXCEPT ![w] = "read"]
    /\ UNCHANGED <<stress, config, controller, pools, stage, taskIndex, client, result,
                   history>>

\* index.js:90, the INSERT rejects: catch, finally, return.
WriteFail(w, err) ==
    /\ WorkersRunning
    /\ wpc[w] = "write"
    /\ Catch(w, err)
    /\ Finally(w)
    /\ wpc' = [wpc EXCEPT ![w] = "resume"]
    /\ UNCHANGED <<stress, config, controller, pools, stage, taskIndex, client,
                   issued, counted>>

\* index.js:102-107, the SELECT resolves: the duration is taken, finally, return.
ReadOk(w, duration) ==
    /\ WorkersRunning
    /\ wpc[w] = "read"
    /\ result' = [result EXCEPT ![w] = [success |-> TRUE, duration |-> duration, error |-> NoError]]
    /\ Finally(w)
    /\ wpc' = [wpc EXCEPT ![w] = "resume"]
    /\ UNCHANGED <<stress, config, controller, pools, stage, taskIndex, client,
                   issued, counted, failures, connFailures>>

\* index.js:102, the SELECT rejects: catch, finally, return.
ReadFail(w, err) ==
    /\ WorkersRunning
    /\ wpc[w] = "read"
    /\ Catch(w, err)
    /\ Finally(w)
    /\ wpc' = [wpc EXCEPT ![w] = "resume"]
    /\ UNCHANGED <<stress, config, controller, pools, stage, taskIndex, client,
                   issued, counted>>

\* ------------------------------------------------------ the worker
\* index.js:148-152: take the next task index; past the end, leave the loop,
\* otherwise call performUserAction, which runs up to its first await.
\* Variant: the bound test is taskIndex > requestCount.
PullTaskOffByOne(w) ==
    /\ tasksStarted' = tasksStarted + 1
    /\ issued' = Append(issued, tasksStarted)
    /\ taskIndex' = [taskIndex EXCEPT ![w] = IF tasksStarted > requestCount
                                             THEN 0 ELSE tasksStarted]
    /\ client' = [client EXCEPT ![w] = FALSE]
    /\ wpc' = [wpc EXCEPT ![w] = IF tasksStarted > requestCount THEN "done" ELSE "connect"]

\* A worker that has left the loop has returned: its locals are gone.
PullTask(w) ==
    /\ tasksStarted' = tasksStarted + 1
    /\ issued' = Append(issued, tasksStarted)
    /\ taskIndex' = [taskIndex EXCEPT ![w] = IF tasksStarted >= requestCount
                                             THEN 0 ELSE tasksStarted]
    /\ client' = [client EXCEPT ![w] = FALSE]
    /\ wpc' = [wpc EXCEPT ![w] = IF tasksStarted >= requestCount THEN "done" ELSE "connect"]

\* Variant: a connection error is counted in connErrors only.
RecordResultSplitsErrors(w) ==
    /\ stats' =
        CASE result[w].success ->
               [stats EXCEPT !.completed = @ + 1,
                             !.totalDuration = @ + result[w].duration,
                             !.latencies = Append(@, result[w].duration)]
          [] ~result[w].success /\ IsConnError(result[w].error) ->
               [stats EXCEPT !.connErrors = @ + 1]
          [] OTHER ->
               [stats EXCEPT !.errors = @ + 1]
    /\ counted' = [counted EXCEPT ![taskIndex[w]] = @ + 1]

\* Variant: the result goes into a buffer of the worker's own and the
\* stage's stats are left alone.
RecordResultDeferred(w) ==
    /\ stats' = stats
    /\ counted' = [counted EXCEPT ![taskIndex[w]] = @ + 1]

\* index.js:154-167: the result of one action goes into the stage's stats.
RecordResult(w) ==
    /\ stats' =
        CASE result[w].success ->
               [stats EXCEPT !.completed = @ + 1,
                             !.totalDuration = @ + result[w].duration,
                             !.latencies = Append(@, result[w].duration)]
          [] ~result[w].success /\ ClassifyThrows(result[w].error) ->
               [stats EXCEPT !.errors = @ + 1]
          [] OTHER ->
               [stats EXCEPT !.errors = @ + 1,
                             !.connErrors = @ + (IF IsConnError(result[w].error) THEN 1 ELSE 0)]
    /\ counted' = [counted EXCEPT ![taskIndex[w]] = @ + 1]

\* index.js:146-169: a TypeError thrown while the result is recorded leaves
\* the async function, whose promise rejects; the worker pulls no more.
WorkerThrows(w) ==
    /\ wpc' = [wpc EXCEPT ![w] = "rejected"]
    /\ UNCHANGED <<tasksStarted, issued, taskIndex, client>>

\* Variant: the for loop runs while i <= concurrency.
SpawnWorkerOneMore ==
    /\ pc = "spawn"
    /\ i <= concurrency
    /\ i \in WorkerIds
    /\ PullTask(i)
    /\ i' = i + 1
    /\ pc' = IF i + 1 <= concurrency /\ i + 1 \in WorkerIds THEN "spawn" ELSE "await_workers"
    /\ UNCHANGED <<stress, config, currentConcurrency, report, stageResult, stableLimit,
                   terminal, setupCalls, pools, concurrency, requestCount, stats, result,
                   counted, held, badRelease, failures, connFailures>>

\* index.js:144-171, one turn of the for loop: worker i is created and runs
\* synchronously up to its first await.
SpawnWorker ==
    /\ pc = "spawn"
    /\ i < concurrency
    /\ PullTask(i)
    /\ i' = i + 1
    /\ pc' = IF i + 1 < concurrency THEN "spawn" ELSE "await_workers"
    /\ UNCHANGED <<stress, config, currentConcurrency, report, stageResult, stableLimit,
                   terminal, setupCalls, pools, concurrency, requestCount, stats, result,
                   counted, held, badRelease, failures, connFailures>>

\* index.js:152-168 and 147-152: performUserAction's promise is settled, the
\* worker resumes, records the result and goes round the loop to its next await.
WorkerResume(w) ==
    /\ WorkersRunning
    /\ wpc[w] = "resume"
    /\ RecordResult(w)
    /\ IF ~result[w].success /\ ClassifyThrows(result[w].error)
       THEN WorkerThrows(w)
       ELSE PullTask(w)
    /\ result' = [result EXCEPT ![w] = NoResult]
    /\ UNCHANGED <<stress, config, controller, pools, concurrency, requestCount, i,
                   held, badRelease, failures, connFailures>>

\* ------------------------------------------------------- runStage
\* Variant: the stats object is shared by all stages and never cleared.
StartStageKeepsStats ==
    /\ poolsCreated' = poolsCreated + 1
    /\ openPools' = openPools + 1
    /\ concurrency' = currentConcurrency
    /\ requestCount' = STAGE_REQUESTS
    /\ stats' = stats
    /\ tasksStarted' = 0
    /\ i' = 0
    /\ wpc' = [w \in WorkerIds |-> "idle"]
    /\ taskIndex' = [w \in WorkerIds |-> 0]
    /\ client' = [w \in WorkerIds |-> FALSE]
    /\ result' = [w \in WorkerIds |-> NoResult]
    /\ issued' = <<>>
    /\ counted' = [t \in TaskIds |-> 0]
    /\ held' = {}
    /\ badRelease' = FALSE
    /\ failures' = 0
    /\ connFailures' = 0

\* index.js:120-122: the stage pool's max option.
PoolMax == concurrency

\* index.js:116-142: the stage's pool, stats and task counter are created.
StartStage ==
    /\ poolsCreated' = poolsCreated + 1
    /\ openPools' = openPools + 1
    /\ concurrency' = currentConcurrency
    /\ requestCount' = STAGE_REQUESTS
    /\ stats' = EmptyStats
    /\ tasksStarted' = 0
    /\ i' = 0
    /\ wpc' = [w \in WorkerIds |-> "idle"]
    /\ taskIndex' = [w \in WorkerIds |-> 0]
    /\ client' = [w \in WorkerIds |-> FALSE]
    /\ result' = [w \in WorkerIds |-> NoResult]
    /\ issued' = <<>>
    /\ counted' = [t \in TaskIds |-> 0]
    /\ held' = {}
    /\ badRelease' = FALSE
    /\ failures' = 0
    /\ connFailures' = 0

\* Variant: the barrier is a race, one returned worker is enough.
AllWorkersDoneAny == \E w \in 0..(concurrency - 1) : wpc[w] = "done"

\* index.js:173: every promise of the workers array is fulfilled.
AllWorkersDone == \A w \in 0..(concurrency - 1) : wpc[w] = "done"

SomeWorkerRejected == \E w \in 0..(concurrency - 1) : wpc[w] = "rejected"

\* index.js:173-175: Promise.all(workers) resolves once every worker has
\* returned, and pool.end() is called. If a worker's promise rejects,
\* Promise.all rejects at once: runStage and runProgressiveTest reject
\* (index.js:268 logs the error) and the stage's pool is never ended.
Barrier ==
    /\ pc = "await_workers"
    /\ IF SomeWorkerRejected
       THEN pc' = "rejected"
       ELSE AllWorkersDone /\ pc' = "pool_end"
    /\ UNCHANGED <<stress, config, currentConcurrency, report, stageResult, stableLimit,
                   terminal, setupCalls, pools, stage, workers, history>>

\* index.js:181
ErrorRate(errors, requests) == Div(errors, requests)

\* Variant: only the error rate decides.
HasCriticalFailureRateOnly(connErrors, errorRate, maxErrorRate) ==
    Gt(errorRate, maxErrorRate)

\* index.js:199
HasCriticalFailure(connErrors, errorRate, maxErrorRate) ==
    connErrors > 0 \/ Gt(errorRate, maxErrorRate)

\* index.js:177-200: the derived metrics and the stage's result.
StageResult(elapsed) ==
    [concurrency |-> concurrency,
     throughput |-> Div(stats.completed * 1000, elapsed),
     avgLatency |-> IF stats.completed > 0
                    THEN Div(stats.totalDuration, stats.completed)
                    ELSE Num(0, 1),
     errorRate |-> ErrorRate(stats.errors, requestCount),
     hasCriticalFailure |->
         HasCriticalFailure(stats.connErrors,
                            ErrorRate(stats.errors, requestCount),
                            MAX_ERROR_RATE)]


\* Variant: runStage returns without ending its pool.
RunStageReturnLeaksPool(elapsed) ==
    /\ pc = "pool_end"
    /\ openPools' = openPools
    /\ stageResult' = StageResult(elapsed)
    /\ pc' = "stage_returned"
    /\ UNCHANGED <<stress, config, currentConcurrency, report, stableLimit, terminal,
                   setupCalls, poolsCreated, stage, workers, history>>

\* index.js:175-200: pool.end() resolves, the metrics are computed from the
\* clock and the stats, and runStage returns.
RunStageReturn(elapsed) ==
    /\ pc = "pool_end"
    /\ openPools' = openPools - 1
    /\ stageResult' = StageResult(elapsed)
    /\ pc' = "stage_returned"
    /\ UNCHANGED <<stress, config, currentConcurrency, report, stableLimit, terminal,
                   setupCalls, poolsCreated, stage, workers, history>>

\* -------------------------------------------- runProgressiveTest
\* index.js:215-230: the schema is set up once; a failure ends the process.
SetupOk ==
    /\ pc = "setup"
    /\ setupCalls' = setupCalls + 1
    /\ currentConcurrency' = INITIAL_CONCURRENCY
    /\ report' = <<>>
    /\ pc' = "loop"
    /\ UNCHANGED <<stress, config, stageResult, stableLimit, terminal, pools, stage,
                   workers, history>>

\* Variant: the catch block logs the error and does not leave the process.
SetupFailContinues ==
    /\ pc = "setup"
    /\ setupCalls' = setupCalls + 1
    /\ currentConcurrency' = INITIAL_CONCURRENCY
    /\ report' = <<>>
    /\ pc' = "loop"
    /\ terminal' = "SetupFailed"
    /\ UNCHANGED <<stress, config, stageResult, stableLimit, pools, stage, workers,
                   history>>

\* index.js:220-224: setupTable rethrows, the catch block calls
\* process.exit(1).
SetupFail ==
    /\ pc = "setup"
    /\ setupCalls' = setupCalls + 1
    /\ pc' = "exited"
    /\ terminal' = "SetupFailed"
    /\ UNCHANGED <<stress, config, currentConcurrency, report, stageResult, stableLimit,
                   pools, stage, workers, history>>

\* Variant: the ceiling itself is excluded.
LoopConditionStrict == currentConcurrency < MAX_CONCURRENCY

\* Variant: a do-while loop, a stage is run and the ceiling is tested after it.
LoopConditionRunFirst ==
    Len(report) = 0 \/ currentConcurrency - CONCURRENCY_STEP < MAX_CONCURRENCY

\* index.js:232: the while condition.
LoopCondition == currentConcurrency <= MAX_CONCURRENCY

\* index.js:232-233: the loop goes on and runStage is called.
LoopEnter ==
    /\ pc = "loop"
    /\ LoopCondition
    /\ StartStage
    /\ pc' = "spawn"
    /\ UNCHANGED <<stress, config, currentConcurrency, report, stageResult, stableLimit,
                   terminal, setupCalls>>

\* index.js:232 and 251: the loop ends because the ceiling is passed.
LoopExit ==
    /\ pc = "loop"
    /\ ~LoopCondition
    /\ pc' = "done"
    /\ terminal' = "StoppedAtCeiling"
    /\ UNCHANGED <<stress, config, currentConcurrency, report, stageResult, stableLimit,
                   setupCalls, pools, stage, workers, history>>

\* Variant: the failing level itself is reported.
StableLimitFailingLevel == currentConcurrency

\* index.js:238-241: the limit the log reports when a stage fails.
StableLimit == currentConcurrency - CONCURRENCY_STEP

\* Variant: the break is missing, the ramp goes on after a critical failure.
StageFailedContinues ==
    /\ pc = "stage_returned"
    /\ stageResult.hasCriticalFailure
    /\ report' = Append(report, stageResult)
    /\ stableLimit' = currentConcurrency - CONCURRENCY_STEP
    /\ currentConcurrency' = currentConcurrency + CONCURRENCY_STEP
    /\ pc' = "pause"
    /\ UNCHANGED <<stress, config, stageResult, terminal, setupCalls, pools,
                   stage, workers, history>>

\* index.js:234-244: the result is appended; a critical failure ends the loop.
StageFailed ==
    /\ pc = "stage_returned"
    /\ stageResult.hasCriticalFailure
    /\ report' = Append(report, stageResult)
    /\ stableLimit' = StableLimit
    /\ pc' = "done"
    /\ terminal' = "StoppedOnFailure"
    /\ UNCHANGED <<stress, config, currentConcurrency, stageResult, setupCalls, pools,
                   stage, workers, history>>

\* index.js:234-248: the result is appended, the concurrency is raised and
\* the one-second pause starts.
\* Variant: the result is put at the front of the report.
StagePassedUnshift ==
    /\ pc = "stage_returned"
    /\ ~stageResult.hasCriticalFailure
    /\ report' = <<stageResult>> \o report
    /\ currentConcurrency' = currentConcurrency + CONCURRENCY_STEP
    /\ pc' = "pause"
    /\ UNCHANGED <<stress, config, stageResult, stableLimit, terminal, setupCalls,
                   pools, stage, workers, history>>

StagePassed ==
    /\ pc = "stage_returned"
    /\ ~stageResult.hasCriticalFailure
    /\ report' = Append(report, stageResult)
    /\ currentConcurrency' = currentConcurrency + CONCURRENCY_STEP
    /\ pc' = "pause"
    /\ UNCHANGED <<stress, config, stageResult, stableLimit, terminal, setupCalls,
                   pools, stage, workers, history>>

\* Variant: the pause's promise is never resolved.
PauseDoneUnresolved ==
    /\ pc = "pause"
    /\ UNCHANGED vars

\* index.js:248: the pause is over.
PauseDone ==
    /\ pc = "pause"
    /\ pc' = "loop"
    /\ UNCHANGED <<stress, config, currentConcurrency, report, stageResult, stableLimit,
                   terminal, setupCalls, pools, stage, workers, history>>

Next ==
    \/ SetupOk
    \/ SetupFail
    \/ LoopEnter
    \/ LoopExit
    \/ SpawnWorker
    \/ \E w \in WorkerIds : ConnectOk(w)
    \/ \E w \in WorkerIds, err \in StoreErrors : ConnectFail(w, err)
    \/ \E w \in WorkerIds : WriteOk(w)
    \/ \E w \in WorkerIds, err \in StoreErrors : WriteFail(w, err)
    \/ \E w \in WorkerIds, duration \in Durations : ReadOk(w, duration)
    \/ \E w \in WorkerIds, err \in StoreErrors : ReadFail(w, err)
    \/ \E w \in WorkerIds : WorkerResume(w)
    \/ Barrier
    \/ \E elapsed \in ElapsedTimes : RunStageReturn(elapsed)
    \/ StageFailed
    \/ StagePassed
    \/ PauseDone

Spec == Init /\ [][Next]_vars

\* Where the controller, the spawn loop and each worker stand; every step
\* of Next moves one of them.
position == <<pc, i, wpc>>

\* The event loop runs every continuation that is ready: a pool or store
\* operation that is pending returns, a timer that is armed fires, a
\* settled promise resumes its awaiter.
FairSpec == Spec /\ WF_position(Next)


\* ------------------------------------------------ stress_test.js
\* stress_test.js:199, latencies.sort((a, b) => a - b): ascending by value.
\* Position k of the result holds the element that has k - 1 elements
\* before it in the order (equal values keep their arrival order).
SortAscending(s) ==
    LET n == Len(s)
        Before(a, b) == s[a] < s[b] \/ (s[a] = s[b] /\ a < b)
        Rank(b) == Cardinality({a \in 1..n : Before(a, b)}) + 1
    IN  [k \in 1..n |-> s[CHOOSE b \in 1..n : Rank(b) = k]]

\* Variant: nearest rank, index = ceil(p * length / 100) - 1.
GetPercentileNearestRank(sorted, p) ==
    IF Len(sorted) = 0 THEN Number(0)
    ELSE LET index == ((p * Len(sorted) + 99) \div 100) - 1
         IN  IF index < Len(sorted) THEN Number(sorted[index + 1]) ELSE Undefined

\* stress_test.js:200-204. Math.floor((p / 100) * length) equals the integer
\* quotient of p * length by 100 for p = 50, 95 and 99: the double nearest
\* to p/100 is below it by less than half an ulp, so a product that is an
\* integer rounds to that integer, and any other is at least 1/100 from one.
\* Arrays start at 0, sequences at 1; reading past the end gives undefined.
GetPercentile(sorted, p) ==
    IF Len(sorted) = 0 THEN Number(0)
    ELSE LET index == (p * Len(sorted)) \div 100
         IN  IF index < Len(sorted) THEN Number(sorted[index + 1]) ELSE Undefined

\* The 100 samples 10, 20, ..., 1000, in descending arrival order.
Fixture == [k \in 1..100 |-> 10 * (101 - k)]

\* index.js is not running: the variables of its model stay put.
IndexOff ==
    /\ INITIAL_CONCURRENCY = 1
    /\ CONCURRENCY_STEP = 1
    /\ MAX_CONCURRENCY = 1
    /\ STAGE_REQUESTS = 0
    /\ MAX_ERROR_RATE = Num(5, 100)
    /\ pc = "off"
    /\ currentConcurrency = 0
    /\ report = <<>>
    /\ stageResult = NoStageResult
    /\ stableLimit = NoStableLimit
    /\ terminal = "running"
    /\ setupCalls = 0
    /\ poolsCreated = 0
    /\ openPools = 0
    /\ concurrency = 0
    /\ requestCount = 0
    /\ stats = EmptyStats
    /\ tasksStarted = 0
    /\ i = 0
    /\ wpc = [w \in WorkerIds |-> "idle"]
    /\ taskIndex = [w \in WorkerIds |-> 0]
    /\ client = [w \in WorkerIds |-> FALSE]
    /\ result = [w \in WorkerIds |-> NoResult]
    /\ issued = <<>>
    /\ counted = [t \in TaskIds |-> 0]
    /\ held = {}
    /\ badRelease = FALSE
    /\ failures = 0
    /\ connFailures = 0

index == <<config, controller, pools, stage, workers, history>>

\* The workers of runStressTest are at work; the samples so far are either
\* none or the hundred of the fixture.
InitStress ==
    /\ IndexOff
    /\ samples \in {<<>>, Fixture}
    /\ latencies = samples
    /\ spc = "running"
    /\ percentiles = NoPercentiles

\* stress_test.js:123-128: an action succeeds and its duration is pushed.
PushLatency(duration) ==
    /\ spc = "running"
    /\ Len(latencies) < MaxSamples
    /\ latencies' = Append(latencies, duration)
    /\ samples' = Append(samples, duration)
    /\ UNCHANGED <<index, spc, percentiles>>

\* stress_test.js:193-199: all workers are done; the samples are sorted.
SortLatencies ==
    /\ spc = "running"
    /\ latencies' = SortAscending(latencies)
    /\ spc' = "sorted"
    /\ UNCHANGED <<index, samples, percentiles>>

\* stress_test.js:220-222: the three percentiles of the report.
ReportPercentiles ==
    /\ spc = "sorted"
    /\ percentiles' = [p \in Percentiles |-> GetPercentile(latencies, p)]
    /\ spc' = "reported"
    /\ UNCHANGED <<index, latencies, samples>>

NextStress ==
    \/ \E duration \in 0..MaxLatency : PushLatency(duration)
    \/ SortLatencies
    \/ ReportPercentiles

SpecStress == InitStress /\ [][NextStress]_vars


\* ------------------------------------------------------ properties
\* Promise.all of the current stage has resolved and the next stage has not
\* begun: the stage's stats and history are final.
BarrierReturned == pc \in {"pool_end", "stage_returned"}

InFlight(w) == wpc[w] \in {"connect", "write", "read", "resume"}

LastStage == report[Len(report)]

\* C1: once the worker barrier of a stage has returned, completed + errors
\* equals requestCount, and every task index below requestCount has been
\* counted exactly once (none lost, none counted twice), for every
\* concurrency >= 1 and requestCount >= 0.
C1_Conservation ==
    BarrierReturned =>
        /\ stats.completed + stats.errors = requestCount
        /\ \A t \in TaskIds : counted[t] = IF t < requestCount THEN 1 ELSE 0

\* More workers than requests, and both kinds of outcome.
C1_Witness ==
    /\ pc = "pool_end"
    /\ concurrency > requestCount
    /\ stats.completed > 0
    /\ stats.errors > 0

\* C2: the task counter hands out indices in increasing order, never the
\* same one twice; a worker at work holds an index below requestCount that
\* no other worker holds; every pull after requestCount indices were issued
\* returns an index >= requestCount and ends the worker that made it.
C2_TaskCounter ==
    /\ \A j, k \in 1..Len(issued) : j < k => issued[j] < issued[k]
    /\ \A w \in WorkerIds : InFlight(w) =>
          /\ taskIndex[w] < requestCount
          /\ \E k \in 1..Len(issued) : issued[k] = taskIndex[w]
          /\ \A v \in WorkerIds : (v # w /\ InFlight(v)) => taskIndex[v] # taskIndex[w]
    /\ \A k \in 1..Len(issued) : k > requestCount => issued[k] >= requestCount
    /\ Cardinality({k \in 1..Len(issued) : issued[k] >= requestCount})
         = Cardinality({w \in WorkerIds : wpc[w] = "done"})

\* Several workers pulled after the counter was exhausted.
C2_Witness ==
    /\ pc = "pool_end"
    /\ requestCount >= 1
    /\ Len(issued) >= requestCount + 2

\* C3: a stage in which at least one action failed with a connection error
\* (code 53300, or "timeout" in the message) returns hasCriticalFailure =
\* TRUE, whatever the error rate.
C3_ConnErrorIsCritical ==
    (pc = "stage_returned" /\ connFailures > 0) => stageResult.hasCriticalFailure

\* One connection error, and an error rate that does not exceed the maximum.
C3_Witness ==
    /\ pc = "stage_returned"
    /\ connFailures = 1
    /\ ~Gt(stageResult.errorRate, MAX_ERROR_RATE)
    /\ stageResult.hasCriticalFailure

\* C4: with no connection error, hasCriticalFailure holds exactly when
\* errors/requestCount is strictly above MAX_ERROR_RATE; a stage in which
\* every action succeeds has errorRate = 0 and no critical failure.
C4_Verdict ==
    (pc = "stage_returned" /\ connFailures = 0) =>
        /\ stageResult.hasCriticalFailure
             <=> stats.errors * MAX_ERROR_RATE.den > MAX_ERROR_RATE.num * requestCount
        /\ stats.errors = 0 =>
             (stageResult.errorRate = Num(0, 1) /\ ~stageResult.hasCriticalFailure)

\* What holds of C4 when the stage has at least one request, with the
\* cases at 5%: 100 errors of 2000 are not critical, 101 are.
C4_VerdictWithRequests ==
    /\ (pc = "stage_returned" /\ connFailures = 0 /\ requestCount >= 1) =>
          /\ stageResult.hasCriticalFailure
               <=> stats.errors * MAX_ERROR_RATE.den > MAX_ERROR_RATE.num * requestCount
          /\ stats.errors = 0 =>
               (stageResult.errorRate = Num(0, 1) /\ ~stageResult.hasCriticalFailure)
    /\ ~HasCriticalFailure(0, ErrorRate(100, 2000), Num(5, 100))
    /\ HasCriticalFailure(0, ErrorRate(101, 2000), Num(5, 100))

\* A stage exactly at the maximum error rate, without critical failure.
C4_AtThreshold ==
    /\ pc = "stage_returned"
    /\ connFailures = 0
    /\ stats.errors > 0
    /\ stats.errors * MAX_ERROR_RATE.den = MAX_ERROR_RATE.num * requestCount
    /\ ~stageResult.hasCriticalFailure

NoStageFailed == \A k \in 1..Len(report) : ~report[k].hasCriticalFailure

RampHitsCeiling ==
    /\ MAX_CONCURRENCY >= INITIAL_CONCURRENCY
    /\ (MAX_CONCURRENCY - INITIAL_CONCURRENCY) % CONCURRENCY_STEP = 0

\* C5: when the ceiling is initial + n * step and no stage fails, the run
\* ends at the ceiling after exactly n + 1 stages, of concurrency initial,
\* initial + step, ..., ceiling in this order.
C5_FullRamp ==
    (pc = "done" /\ RampHitsCeiling /\ NoStageFailed) =>
        /\ terminal = "StoppedAtCeiling"
        /\ Len(report) = (MAX_CONCURRENCY - INITIAL_CONCURRENCY) \div CONCURRENCY_STEP + 1
        /\ poolsCreated = Len(report)
        /\ \A k \in 1..Len(report) :
              report[k].concurrency = INITIAL_CONCURRENCY + (k - 1) * CONCURRENCY_STEP

\* The ramp 1, 2, 3 (the 10/10/30 of the configuration, scaled).
C5_Witness ==
    /\ pc = "done"
    /\ terminal = "StoppedAtCeiling"
    /\ INITIAL_CONCURRENCY = 1 /\ CONCURRENCY_STEP = 1 /\ MAX_CONCURRENCY = 3
    /\ Len(report) = 3
    /\ report[1].concurrency = 1 /\ report[2].concurrency = 2 /\ report[3].concurrency = 3


\* C6: a stage that returns hasCriticalFailure = TRUE ends the run at once:
\* its result becomes the last element of the report, the run is in the
\* stopped-on-failure state, and nothing happens afterwards (no further
\* pool, no further task).
C6_StopsOnCriticalFailure ==
    /\ [](terminal = "StoppedOnFailure" =>
            /\ pc = "done"
            /\ Len(report) >= 1
            /\ LastStage = stageResult
            /\ LastStage.hasCriticalFailure
            /\ LastStage.concurrency = currentConcurrency
            /\ poolsCreated = Len(report)
            /\ openPools = 0)
    /\ [][(pc = "stage_returned" /\ stageResult.hasCriticalFailure) =>
            /\ pc' = "done"
            /\ terminal' = "StoppedOnFailure"
            /\ report' = Append(report, stageResult)
            /\ poolsCreated' = poolsCreated
            /\ tasksStarted' = tasksStarted]_vars
    /\ [][pc # "done"]_vars

\* A run stopped by its second or a later stage.
C6_Witness ==
    /\ terminal = "StoppedOnFailure"
    /\ Len(report) >= 2
    /\ LastStage.hasCriticalFailure

\* C7 as claimed: the stable limit reported on a failure stop is the
\* concurrency of the stage executed just before the failing one, a stage
\* without critical failure, also when the first stage is the failing one.
C7_StableLimitIsPriorStage ==
    terminal = "StoppedOnFailure" =>
        /\ Len(report) >= 2
        /\ stableLimit = report[Len(report) - 1].concurrency
        /\ ~report[Len(report) - 1].hasCriticalFailure

\* C7 as amended: the stable limit reported is the failing stage's
\* concurrency minus the step. When the failing stage is not the first,
\* that is the concurrency of the stage before it, which did not fail; when
\* it is the first, it is initial - step, the level of no executed stage.
C7_StableLimit ==
    terminal = "StoppedOnFailure" =>
        /\ stableLimit = LastStage.concurrency - CONCURRENCY_STEP
        /\ Len(report) >= 2 =>
              /\ stableLimit = report[Len(report) - 1].concurrency
              /\ ~report[Len(report) - 1].hasCriticalFailure
        /\ Len(report) = 1 =>
              /\ stableLimit = INITIAL_CONCURRENCY - CONCURRENCY_STEP
              /\ stableLimit < LastStage.concurrency

\* A failure stop after a stage that passed.
C7_Witness ==
    /\ terminal = "StoppedOnFailure"
    /\ Len(report) >= 2
    /\ stableLimit = report[Len(report) - 1].concurrency

\* v is the k-th smallest of the samples (counted with repetitions).
KthSmallest(s, k, v) ==
    /\ \E a \in 1..Len(s) : s[a] = v
    /\ Cardinality({a \in 1..Len(s) : s[a] < v}) < k
    /\ k <= Cardinality({a \in 1..Len(s) : s[a] <= v})

\* C8 as claimed: with 100 samples getPercentile(p) is the p-th smallest
\* sample (p50 the 50th, p99 the 99th); with no sample it is 0; for p in
\* {50, 95, 99} the index is inside the array.
C8_PthSmallest ==
    spc = "reported" =>
        /\ Len(samples) = 100 =>
              /\ KthSmallest(samples, 50, percentiles[50].value)
              /\ KthSmallest(samples, 99, percentiles[99].value)
        /\ Len(samples) = 0 => \A p \in Percentiles : percentiles[p] = Number(0)
        /\ \A p \in Percentiles : percentiles[p].defined

\* C8 as amended: getPercentile(p) is the sample at index floor(p * n / 100)
\* of the n sorted samples, the (floor(p * n / 100) + 1)-th smallest: of the
\* 100 samples 10, 20, ..., 1000, p50 is the 51st smallest (510) and p99 the
\* 100th (1000). With no sample it is 0; for p in {50, 95, 99} the index is
\* inside the array.
C8_FloorIndex ==
    spc = "reported" =>
        /\ \A p \in Percentiles :
              IF Len(samples) = 0
              THEN percentiles[p] = Number(0)
              ELSE /\ percentiles[p].defined
                   /\ KthSmallest(samples, (p * Len(samples)) \div 100 + 1, percentiles[p].value)
        /\ samples = Fixture =>
              /\ percentiles[50] = Number(510)
              /\ percentiles[99] = Number(1000)
              /\ KthSmallest(samples, 51, percentiles[50].value)
              /\ KthSmallest(samples, 100, percentiles[99].value)

\* The percentiles of the hundred samples have been reported.
C8_Witness ==
    /\ spc = "reported"
    /\ samples = Fixture
    /\ percentiles[50] = Number(510)

\* C9: a failed action never aborts the stage: no worker's promise and no
\* barrier rejects; the worker that resumes with a failure adds one to the
\* stage's errors and pulls the next task index; at the barrier every
\* failure has been counted.
C9_FailureDoesNotAbort ==
    /\ [](pc # "rejected" /\ \A w \in WorkerIds : wpc[w] # "rejected")
    /\ [](BarrierReturned => stats.errors = failures)
    /\ [][\A w \in WorkerIds :
            (wpc[w] = "resume" /\ ~result[w].success /\ wpc'[w] # "resume") =>
                /\ stats'.errors = stats.errors + 1
                /\ tasksStarted' = tasksStarted + 1
                /\ wpc'[w] \in {"connect", "done"}]_vars

\* A single worker saw two failures and reached the barrier.
C9_Witness ==
    /\ pc = "pool_end"
    /\ concurrency = 1
    /\ stats.errors = 2
    /\ failures = 2

\* C10: the handles held are exactly those of the workers between a
\* successful connect and the end of their action, no release ever hits a
\* handle that is not held (none twice, none after a failed connect), and
\* no handle is held once the barrier has returned.
C10_ReleasedExactlyOnce ==
    /\ ~badRelease
    /\ held = {taskIndex[w] : w \in {v \in WorkerIds : wpc[v] \in {"write", "read"}}}
    /\ BarrierReturned => held = {}

\* A worker whose action failed after it had obtained a client, and no
\* handle held.
C10_Witness ==
    /\ \E w \in WorkerIds : wpc[w] = "resume" /\ ~result[w].success /\ client[w]
    /\ held = {}
    /\ ~badRelease

\* The workers of the stage that have been created.
Started == {w \in WorkerIds : wpc[w] # "idle"}

\* C11: once the barrier has returned, exactly `concurrency` workers have
\* been started, every one of them has seen the counter exhausted and has
\* returned, and no action is in flight; the result is only computed in
\* that state. A worker that has returned stays returned for the rest of
\* the stage, and every pull from the counter is made by a worker that is
\* being created or resumes, never by one that has returned.
C11_BarrierAfterAllWorkers ==
    /\ [](BarrierReturned =>
            /\ i = concurrency
            /\ Started = 0..(concurrency - 1)
            /\ \A w \in Started : wpc[w] = "done"
            /\ \A w \in WorkerIds : ~InFlight(w)
            /\ tasksStarted >= requestCount)
    /\ [][(pc' = "stage_returned" /\ pc # "stage_returned") =>
            /\ pc = "pool_end"
            /\ \A w \in 0..(concurrency - 1) : wpc[w] = "done"]_vars
    /\ [][\A w \in WorkerIds :
            (wpc[w] = "done" /\ poolsCreated' = poolsCreated) => wpc'[w] = "done"]_vars
    /\ [][(tasksStarted' # tasksStarted /\ poolsCreated' = poolsCreated) =>
            /\ tasksStarted' = tasksStarted + 1
            /\ \E w \in WorkerIds :
                  /\ wpc[w] \in {"idle", "resume"}
                  /\ wpc'[w] \in {"connect", "done"}
                  /\ \A v \in WorkerIds \ {w} : wpc'[v] = wpc[v]]_vars

\* The barrier of a stage of three workers and two tasks has returned.
C11_Witness ==
    /\ pc = "pool_end"
    /\ concurrency = 3
    /\ requestCount = 2
    /\ stats.completed + stats.errors = 2

\* C12: setupTable is called once, before any stage: no pool of a stage is
\* created before the call has succeeded. When the call fails the process
\* has exited: no pool of a stage is ever created, no task index is handed
\* out, no worker is started, the report is empty, and no step follows.
C12_SetupOnceBeforeStages ==
    /\ [](setupCalls = (IF pc = "setup" THEN 0 ELSE 1))
    /\ [](pc = "setup" => poolsCreated = 0 /\ report = <<>> /\ issued = <<>>)
    /\ [](terminal = "SetupFailed" =>
            /\ pc = "exited"
            /\ poolsCreated = 0
            /\ openPools = 0
            /\ tasksStarted = 0
            /\ issued = <<>>
            /\ \A w \in WorkerIds : wpc[w] = "idle"
            /\ report = <<>>)
    /\ [][poolsCreated' # poolsCreated =>
            setupCalls = 1 /\ terminal = "running"]_vars
    /\ [][pc # "exited"]_vars

\* The schema setup has failed and the process has exited.
C12_Witness ==
    /\ pc = "exited"
    /\ terminal = "SetupFailed"
    /\ setupCalls = 1

\* The number of levels INITIAL_CONCURRENCY + k * CONCURRENCY_STEP that do
\* not exceed MAX_CONCURRENCY.
LevelsUpToCeiling ==
    IF INITIAL_CONCURRENCY > MAX_CONCURRENCY
    THEN 0
    ELSE ((MAX_CONCURRENCY - INITIAL_CONCURRENCY) \div CONCURRENCY_STEP) + 1

\* C13 as stated: a run without critical failure that has stopped at the
\* ceiling has executed at least one stage, its last stage has a
\* concurrency at or above the ceiling, and every earlier stage one below it.
C13_RunsThenTestsCeiling ==
    terminal = "StoppedAtCeiling" =>
        /\ Len(report) >= 1
        /\ LastStage.concurrency >= MAX_CONCURRENCY
        /\ \A k \in 1..(Len(report) - 1) : report[k].concurrency < MAX_CONCURRENCY

\* C13, amended: the ceiling is tested before each stage. No stage is ever
\* started above the ceiling; a run without critical failure executes
\* exactly the levels initial + k * step that do not exceed the ceiling and
\* stops when the next level exceeds it: the last executed stage is within
\* one step below the ceiling or at it, and no stage is executed when the
\* initial concurrency exceeds the ceiling.
C13_TestsCeilingBeforeStage ==
    /\ poolsCreated > 0 => concurrency <= MAX_CONCURRENCY
    /\ \A k \in 1..Len(report) : report[k].concurrency <= MAX_CONCURRENCY
    /\ terminal = "StoppedAtCeiling" =>
          /\ NoStageFailed
          /\ Len(report) = LevelsUpToCeiling
          /\ poolsCreated = LevelsUpToCeiling
          /\ currentConcurrency > MAX_CONCURRENCY
          /\ currentConcurrency - CONCURRENCY_STEP <= MAX_CONCURRENCY \/ report = <<>>
          /\ Len(report) >= 1 =>
                /\ LastStage.concurrency <= MAX_CONCURRENCY
                /\ LastStage.concurrency + CONCURRENCY_STEP > MAX_CONCURRENCY
          /\ INITIAL_CONCURRENCY > MAX_CONCURRENCY => report = <<>>

\* A ramp whose ceiling is not on a level has stopped: its last stage ran
\* below the ceiling.
C13_Witness ==
    /\ terminal = "StoppedAtCeiling"
    /\ Len(report) >= 1
    /\ LastStage.concurrency < MAX_CONCURRENCY

\* A run whose initial concurrency exceeds the ceiling has stopped without
\* a stage.
C13_NoStageWitness ==
    /\ terminal = "StoppedAtCeiling"
    /\ INITIAL_CONCURRENCY > MAX_CONCURRENCY
    /\ report = <<>>
    /\ poolsCreated = 0

\* A stage has been started and its result is not yet in the report.
StageOpen == pc \in {"spawn", "await_workers", "rejected", "pool_end", "stage_returned"}

\* C14: the report has one element per stage that has been run and
\* appended, the k-th of them with concurrency initial + (k - 1) * step;
\* only the last element can carry a critical failure, and then the run has
\* stopped; a step either leaves the report as it is or appends the result
\* of the stage that has just returned, keeping every earlier element.
C14_ReportAppendOnly ==
    /\ [](pc \notin {"setup", "exited"} =>
            Len(report) = poolsCreated - (IF StageOpen THEN 1 ELSE 0))
    /\ [](\A k \in 1..Len(report) :
            report[k].concurrency = INITIAL_CONCURRENCY + (k - 1) * CONCURRENCY_STEP)
    /\ [](\A k \in 1..(Len(report) - 1) : ~report[k].hasCriticalFailure)
    /\ []((Len(report) >= 1 /\ LastStage.hasCriticalFailure) =>
            pc = "done" /\ terminal = "StoppedOnFailure")
    /\ [][\/ report' = report
          \/ /\ pc = "stage_returned"
             /\ Len(report') = Len(report) + 1
             /\ SubSeq(report', 1, Len(report)) = report
             /\ report'[Len(report')] = stageResult]_vars

\* Three stages are in the report and the third carries the critical
\* failure.
C14_Witness ==
    /\ Len(report) = 3
    /\ report[3].hasCriticalFailure
    /\ report[3].concurrency = INITIAL_CONCURRENCY + 2 * CONCURRENCY_STEP

\* C15: the throughput of a returned stage is a finite number (and so is 0
\* when no time has elapsed): never NaN, never Infinity.
C15_ThroughputFinite ==
    pc = "stage_returned" => stageResult.throughput.kind = "num"

\* A stage in which an action completed has returned an infinite throughput.
C15_InfiniteThroughput ==
    /\ pc = "stage_returned"
    /\ stats.completed > 0
    /\ stageResult.throughput = Infinity

\* C16: a stage's pool is open from the start of the stage until pool.end()
\* has resolved, which happens after every worker has returned and in the
\* step in which runStage returns; at most one pool of a stage is open, and
\* a pool is created only when none is open.
C16_PoolClosedBetweenStages ==
    /\ [](openPools \in {0, 1})
    /\ [](openPools = (IF pc \in {"spawn", "await_workers", "pool_end"} THEN 1 ELSE 0))
    /\ [](pc = "stage_returned" => openPools = 0)
    /\ [][openPools' < openPools =>
            /\ pc = "pool_end"
            /\ AllWorkersDone
            /\ pc' = "stage_returned"]_vars
    /\ [][poolsCreated' # poolsCreated =>
            /\ poolsCreated' = poolsCreated + 1
            /\ openPools = 0
            /\ openPools' = 1]_vars

\* The second stage's pool is the only open one, after a first stage in
\* which an action failed.
C16_Witness ==
    /\ poolsCreated = 2
    /\ openPools = 1
    /\ pc = "await_workers"
    /\ Len(report) = 1
    /\ Gt(report[1].errorRate, Num(0, 1))

\* The task indices below requestCount handed out so far in this stage.
Dispatched == {k \in 1..Len(issued) : issued[k] < requestCount}

\* The workers whose action has not yet been recorded.
Pending == {w \in WorkerIds : wpc[w] \in {"connect", "write", "read", "resume"}}

\* C17: in a stage, completed + errors is at most requestCount and at most
\* the number of task indices below requestCount handed out so far (it is
\* that number less the actions not yet recorded); connErrors is part of
\* errors and there is one latency per completed action. A stage starts
\* with stats at zero and a task counter at zero, whatever the stages
\* before it recorded.
C17_StatsWithinDispatched ==
    /\ [](stats.completed + stats.errors <= requestCount \/ poolsCreated = 0)
    /\ [](stats.completed + stats.errors <= Cardinality(Dispatched))
    /\ [](stats.completed + stats.errors = Cardinality(Dispatched) - Cardinality(Pending))
    /\ [](stats.connErrors <= stats.errors /\ Len(stats.latencies) = stats.completed)
    /\ [][poolsCreated' # poolsCreated =>
            stats' = EmptyStats /\ tasksStarted' = 0]_vars

\* In a second stage of two tasks one outcome has been recorded, after a
\* first stage that recorded two.
C17_Witness ==
    /\ poolsCreated = 2
    /\ Len(report) = 1
    /\ requestCount = 2
    /\ pc = "await_workers"
    /\ stats.completed + stats.errors = 1

\* The two ways a progressive run ends once its schema is set up.
Stopped == pc = "done" /\ terminal \in {"StoppedOnFailure", "StoppedAtCeiling"}

\* C18: when every pending operation eventually returns, a stage that has
\* been started hands out all its task indices, sees every worker return
\* and returns its result, and a run whose schema is set up stops on a
\* failure or at the ceiling, after at most as many stages as there are
\* levels up to the ceiling. No action in flight is dropped: a worker moves
\* from connect to write to read, or to the recording of its result, and
\* from there to its next task or to its return.
C18_RunTerminates ==
    /\ (pc = "spawn") ~> (pc = "stage_returned" /\ AllWorkersDone
                            /\ tasksStarted = requestCount + concurrency)
    /\ (pc = "loop") ~> Stopped
    /\ <>(pc \in {"done", "exited"})
    /\ [](Stopped => Len(report) <= LevelsUpToCeiling)
    /\ [][\A w \in WorkerIds :
            /\ wpc[w] = "connect" => wpc'[w] \in {"connect", "write", "resume"}
            /\ wpc[w] = "write" => wpc'[w] \in {"write", "read", "resume"}
            /\ wpc[w] = "read" => wpc'[w] \in {"read", "resume"}
            /\ wpc[w] = "resume" => wpc'[w] \in {"resume", "connect", "done"}]_position

\* A run of three stages, each of two tasks, has stopped at the ceiling.
C18_Witness ==
    /\ Stopped
    /\ terminal = "StoppedAtCeiling"
    /\ Len(report) = 3
    /\ requestCount = 2

\* C19 as stated: the step in which a worker resumes with an outcome and
\* pulls a further task leaves the stage's shared stats as they are.
C19_MergedOnlyAtExit ==
    [][\A w \in WorkerIds :
        (wpc[w] = "resume" /\ wpc'[w] = "connect") => stats' = stats]_vars

\* C19, amended: there is no private buffer. The step in which a worker
\* resumes with an outcome adds that outcome to the stage's shared stats,
\* before the worker pulls its next index and whether or not the worker
\* then returns; within a stage the stats change in no other step, and a
\* worker that returns without an outcome changes nothing. So the stats of
\* a single worker that is still pulling already hold all its earlier
\* outcomes.
C19_RecordedPerOutcome ==
    /\ [][\A w \in WorkerIds :
            (wpc[w] = "resume" /\ wpc'[w] # "resume") =>
                /\ stats'.completed + stats'.errors = stats.completed + stats.errors + 1
                /\ stats'.completed = stats.completed + (IF result[w].success THEN 1 ELSE 0)
                /\ Len(stats'.latencies) = Len(stats.latencies)
                                             + (IF result[w].success THEN 1 ELSE 0)]_vars
    /\ [][(stats' # stats /\ poolsCreated' = poolsCreated) =>
            \E w \in WorkerIds : wpc[w] = "resume" /\ wpc'[w] # "resume"]_vars
    /\ [][\A w \in WorkerIds :
            (wpc[w] = "idle" /\ wpc'[w] = "done") => stats' = stats]_vars
    /\ []((concurrency = 1 /\ wpc[0] \in {"connect", "write", "read", "resume"}) =>
            stats.completed + stats.errors = taskIndex[0])

\* The only worker of a stage is in its second action and its first
\* outcome is in the shared stats.
C19_Witness ==
    /\ concurrency = 1
    /\ wpc[0] = "connect"
    /\ taskIndex[0] = 1
    /\ stats.completed = 1

\* The workers with an action in flight: performUserAction has been called
\* and has not returned.
Acting == {w \in WorkerIds : wpc[w] \in {"connect", "write", "read"}}

\* C20: in a stage the workers are 0..concurrency-1, each is in at most
\* one action and holds at most the one handle of that action; so the
\* actions in flight and the handles held number at most `concurrency`,
\* the max of the stage's pool. Outside a stage nothing is in flight or
\* held.
C20_InFlightWithinPoolMax ==
    /\ Started \subseteq 0..(concurrency - 1)
    /\ Acting \subseteq Started
    /\ Cardinality(Acting) <= concurrency
    /\ held \subseteq {taskIndex[w] : w \in Acting}
    /\ \A w, v \in Acting : taskIndex[w] = taskIndex[v] => w = v
    /\ Cardinality(held) <= Cardinality(Acting)
    /\ Cardinality(held) <= PoolMax
    /\ ~StageOpen => (Acting = {} /\ held = {})

\* Every connection of a pool of two is held: both workers of the stage
\* are in an action with a client.
C20_Witness ==
    /\ pc = "await_workers"
    /\ concurrency = 2
    /\ PoolMax = 2
    /\ Cardinality(Acting) = 2
    /\ Cardinality(held) = 2

====
